---- MODULE Spec2Model ----
(***************************************************************************)
(* TaskBot: the notification scheduler (process_reminders, process_digest), *)
(* the notification ledger (NotificationLog with its unique dedupe_key)    *)
(* and the task-service operations that set the reminder instant.          *)
(*                                                                         *)
(* Instants are milliseconds counted from 2026-02-20T00:00:00Z (unix day   *)
(* 20504), all in UTC.  An optional value (Python None / SQL NULL) is the  *)
(* empty sequence <<>>, a present value v is <<v>>.  Dedupe keys are the   *)
(* strings the code builds.  app is main.run: the DIGEST_TIME setting as a  *)
(* sequence of characters, how far startup has come, the digest hour and   *)
(* minute handed to the digest job, and the jobs added to the scheduler.   *)
(* The notification_logs table and the rows a    *)
(* session has flushed are bags of rows: the table can hold two rows that  *)
(* differ in nothing but their id.  outbox is the bag of the messages the  *)
(* notifier has delivered, each with the logical event it was sent for.    *)
(***************************************************************************)
EXTENDS Integers, Sequences, FiniteSets, Bags, TLC

VARIABLES now, users, boards, columns, tasks, ledger, outbox,
          pc, scan_now, rows, pending, outcome, scans, app, ret

vars == <<now, users, boards, columns, tasks, ledger, outbox,
          pc, scan_now, rows, pending, outcome, scans, app, ret>>

(***************************************************************************)
(* Bounds of the model.                                                    *)
(***************************************************************************)
MaxDay == 1
MaxUsers == 2
MaxTasks == 2
MaxScans == 3

(***************************************************************************)
(* Configuration: DIGEST_TIME defaults to "09:00".                         *)
(***************************************************************************)
DigestHour == 9
DigestMinute == 0
\* scheduler.add_job(..., max_instances=1, coalesce=True)
MaxInstances == 1
\* postpone_task(..., hours=24)
PostponeHours == 24
\* process_digest: overdue_tasks[:5], today_tasks[:5]
PreviewLimit == 5

UserIds == 1..MaxUsers
TaskIds == 1..MaxTasks
\* No operation on a board reads or writes another board's columns or
\* tasks, and a scan handles each candidate by itself, so the column
\* operations and the jobs next to create_task are explored with the tasks
\* on the first board; the second user stays a digest recipient.
ColumnBoards == { b \in UserIds : \A other \in UserIds : b <= other }
Timezones == {"Europe/Moscow", "Pacific/Auckland"}

\* The scheduler of one process runs the two jobs; "reminders2" is the
\* reminders job of a second process working on the same database.
Jobs == {"reminders", "digest"}
RacingScanners == {"reminders", "reminders2"}
\* The executor of the scheduler can hold several instances of a job:
\* "reminders" and "reminders2" of the reminders job, "digest" and "digest2"
\* of the digest job.
Instances(job) == IF job = "reminders" THEN {"reminders", "reminders2"}
                  ELSE {"digest", "digest2"}
Scanners == Jobs \cup RacingScanners \cup Instances("reminders") \cup Instances("digest")
Kind(s) == IF s \in Instances("digest") THEN "digest" ELSE "reminder"

(***************************************************************************)
(* Time: the instants the clock takes and the due instants users enter.    *)
(***************************************************************************)
Hours(n) == n * 3600000
Minutes(n) == n * 60000
Days(n) == n * 86400000

\* times of day (ms after 00:00Z): 06:00:00.000 and 06:00:00.500 (09:00 in
\* Moscow, twice in one second) and 20:00 (23:00 in Moscow, 09:00 of the
\* next local day in Auckland)
TimesOfDay == { Hours(6), Hours(6) + 500, Hours(20) }
Instants == { Days(d) + t : d \in 0..MaxDay, t \in TimesOfDay }
DueChoices == { <<>>, <<Hours(7) + 500>> }
\* postponing stops once the due instant would pass the day after the last
\* day of the clock
DueLimit == Days(MaxDay + 2)

Pad2(n) == IF n < 10 THEN "0" \o ToString(n) ELSE ToString(n)
Pad3(n) == IF n < 10 THEN "00" \o ToString(n)
           ELSE IF n < 100 THEN "0" \o ToString(n) ELSE ToString(n)

\* date.isoformat() of the day that is `day` days after 2026-02-20
DateIso(day) ==
    LET z == day + 20504 + 719468
        era == z \div 146097
        doe == z - era * 146097
        yoe == (doe - doe \div 1460 + doe \div 36524 - doe \div 146096) \div 365
        doy == doe - (365 * yoe + yoe \div 4 - yoe \div 100)
        mp == (5 * doy + 2) \div 153
        d == doy - (153 * mp + 2) \div 5 + 1
        m == IF mp < 10 THEN mp + 3 ELSE mp - 9
        y == yoe + era * 400 + (IF m <= 2 THEN 1 ELSE 0)
    IN  ToString(y) \o "-" \o Pad2(m) \o "-" \o Pad2(d)

\* datetime.isoformat() of an aware UTC datetime; the fraction is printed
\* only when it is not zero, as six digits
IsoFormat(t) ==
    LET ms == t % 1000
    IN  DateIso(t \div 86400000) \o "T" \o Pad2((t \div 3600000) % 24) \o ":"
        \o Pad2((t \div 60000) % 60) \o ":" \o Pad2((t \div 1000) % 60)
        \o (IF ms = 0 THEN "" ELSE "." \o Pad3(ms) \o "000") \o "+00:00"

\* int(now.timestamp())
UnixTimestamp(t) == 20504 * 86400 + t \div 1000

\* now.astimezone(ZoneInfo(tz)): the local wall clock, as ms after the
\* local 2026-02-20T00:00.  In February and March 2026 Europe/Moscow is
\* UTC+3 and Pacific/Auckland is UTC+13.
UtcOffset(tz) == IF tz = "Europe/Moscow" THEN Hours(3) ELSE Hours(13)
AsTimezone(t, tz) == t + UtcOffset(tz)
LocalHour(t, tz) == (AsTimezone(t, tz) \div 3600000) % 24
LocalMinute(t, tz) == (AsTimezone(t, tz) \div 60000) % 60
LocalDay(t, tz) == AsTimezone(t, tz) \div 86400000

(***************************************************************************)
(* Dedupe keys.                                                            *)
(***************************************************************************)
ReminderKey_without_instant(task_id, reminder_at) == "reminder:" \o ToString(task_id)

ReminderKey(task_id, reminder_at) ==
    "reminder:" \o ToString(task_id) \o ":" \o IsoFormat(reminder_at)
DigestKey_undated(user_id, t, tz) == "digest:" \o ToString(user_id)

DigestKey(user_id, t, tz) ==
    "digest:" \o ToString(user_id) \o ":" \o DateIso(LocalDay(t, tz))
FailedKey_canonical(dedupe_key, t) == dedupe_key

FailedKey(dedupe_key, t) ==
    dedupe_key \o ":failed:" \o ToString(UnixTimestamp(t))

(***************************************************************************)
(* next_reminder_at                                                        *)
(***************************************************************************)
next_reminder_at_inclusive(due_at, now_utc) ==
    IF due_at = <<>> THEN <<>>
    ELSE LET preferred == due_at[1] - Hours(1)
         IN  IF preferred >= now_utc THEN <<preferred>> ELSE due_at

next_reminder_at(due_at, now_utc) ==
    IF due_at = <<>> THEN <<>>
    ELSE LET preferred == due_at[1] - Hours(1)
         IN  IF preferred > now_utc THEN <<preferred>> ELSE due_at

(***************************************************************************)
(* The ledger as one session sees it.                                      *)
(***************************************************************************)
KeysOf(rs) == { r.dedupe_key : r \in BagToSet(rs) }
Visible(s) == ledger (+) pending[s]
notification_sent(s, dedupe_key) == dedupe_key \in KeysOf(Visible(s))

\* The unique index on dedupe_key: an INSERT of a key that another open
\* transaction has inserted waits for that transaction to end.
InsertWaits(s, dedupe_key) ==
    \E o \in Scanners \ {s} : dedupe_key \in KeysOf(pending[o])
InsertConflicts_never(s, dedupe_key) == FALSE

InsertConflicts(s, dedupe_key) == dedupe_key \in KeysOf(Visible(s))

NotificationLog(user_id, task_id, event_type, dedupe_key, delivery_status) ==
    [user_id |-> user_id, task_id |-> task_id, type |-> event_type,
     dedupe_key |-> dedupe_key, delivery_status |-> delivery_status]

(***************************************************************************)
(* Settings.digest_hour_minute over texts given as sequences of            *)
(* characters: str.strip, str.split(":") and int().                        *)
(***************************************************************************)
IsSpace(c) == c = " "
IsDigit(c) == c \in {"0", "1", "2", "3", "4", "5", "6", "7", "8", "9"}
DigitValue(c) == CHOOSE d \in 0..9 : ToString(d) = c

RECURSIVE LStrip(_)
LStrip(text) ==
    IF text # <<>> /\ IsSpace(Head(text)) THEN LStrip(Tail(text)) ELSE text
RECURSIVE RStrip(_)
RStrip(text) ==
    IF text # <<>> /\ IsSpace(text[Len(text)])
    THEN RStrip(SubSeq(text, 1, Len(text) - 1)) ELSE text
Strip(text) == RStrip(LStrip(text))

\* text.split(":"): the pieces between the colons, empty pieces included
RECURSIVE SplitColon(_, _)
SplitColon(text, piece) ==
    IF text = <<>> THEN <<piece>>
    ELSE IF Head(text) = ":" THEN <<piece>> \o SplitColon(Tail(text), <<>>)
    ELSE SplitColon(Tail(text), Append(piece, Head(text)))

\* the digits of an int() literal: decimal digits, single underscores
\* allowed between two digits
DigitsOk(body) ==
    /\ body # <<>>
    /\ IsDigit(body[1])
    /\ IsDigit(body[Len(body)])
    /\ \A i \in DOMAIN body : IsDigit(body[i]) \/ body[i] = "_"
    /\ \A i \in 1..(Len(body) - 1) : ~(body[i] = "_" /\ body[i + 1] = "_")
RECURSIVE DigitsValue(_, _)
DigitsValue(body, acc) ==
    IF body = <<>> THEN acc
    ELSE IF Head(body) = "_" THEN DigitsValue(Tail(body), acc)
    ELSE DigitsValue(Tail(body), 10 * acc + DigitValue(Head(body)))

\* int(text): <<n>>, or <<>> where int raises ValueError; whitespace around
\* the literal and one sign before the digits are accepted
int(text) ==
    LET t == Strip(text)
        signed == t # <<>> /\ Head(t) \in {"+", "-"}
        body == IF signed THEN Tail(t) ELSE t
    IN  IF ~DigitsOk(body) THEN <<>>
        ELSE IF signed /\ Head(t) = "-" THEN <<0 - DigitsValue(body, 0)>>
        ELSE <<DigitsValue(body, 0)>>

Clamp(n, lo, hi) == IF n < lo THEN lo ELSE IF n > hi THEN hi ELSE n
digest_hour_minute_clamping(DIGEST_TIME) ==
    LET parts == SplitColon(Strip(DIGEST_TIME), <<>>)
    IN  IF Len(parts) # 2 THEN "ValueError"
        ELSE IF int(parts[1]) = <<>> \/ int(parts[2]) = <<>> THEN "ValueError"
        ELSE <<Clamp(int(parts[1])[1], 0, 23), Clamp(int(parts[2])[1], 0, 59)>>

digest_hour_minute(DIGEST_TIME) ==
    LET parts == SplitColon(Strip(DIGEST_TIME), <<>>)
    IN  IF Len(parts) # 2 THEN "ValueError"
        ELSE IF int(parts[1]) = <<>> \/ int(parts[2]) = <<>> THEN "ValueError"
        ELSE LET hour == int(parts[1])[1]
                 minute == int(parts[2])[1]
             IN  IF ~(0 <= hour /\ hour <= 23 /\ 0 <= minute /\ minute <= 59)
                 THEN "ValueError"
                 ELSE <<hour, minute>>

\* main.run after scheduler.start() under the default DIGEST_TIME = "09:00"
StartedApp ==
    [DIGEST_TIME |-> <<"0", "9", ":", "0", "0">>, pc |-> "started",
     digest |-> <<DigestHour, DigestMinute>>, jobs |-> Jobs]

\* get_or_create_user: a new user has the default timezone of the
\* deployment (TZ_DEFAULT) and digest_enabled = True
NewUser(telegram_id, tz_default) ==
    [telegram_id |-> telegram_id, timezone |-> tz_default, digest_enabled |-> TRUE]

\* The users table after the chats with telegram ids 1..MaxUsers have been
\* bootstrapped in that order, each under some TZ_DEFAULT
BootstrappedUsers ==
    { [i \in UserIds |-> NewUser(i, tz[i])] :
        tz \in { f \in [UserIds -> Timezones] : f[1] = "Europe/Moscow" } }

\* _DEFAULT_COLUMNS
DEFAULT_COLUMNS ==
    << [name |-> "Inbox", is_done |-> FALSE], [name |-> "Todo", is_done |-> FALSE],
       [name |-> "Doing", is_done |-> FALSE], [name |-> "Done", is_done |-> TRUE] >>

\* ensure_default_columns on a board without columns: the rows it adds,
\* position = index in _DEFAULT_COLUMNS
DefaultColumns(board_id) ==
    [idx \in 1..Len(DEFAULT_COLUMNS) |->
        [board_id |-> board_id, name |-> DEFAULT_COLUMNS[idx].name,
         position |-> idx - 1, is_done |-> DEFAULT_COLUMNS[idx].is_done]]

\* The columns table (a row's id is its index) after the boards 1..n got
\* their default columns in that order
RECURSIVE BootstrappedColumns(_)
BootstrappedColumns(n) ==
    IF n = 0 THEN <<>> ELSE BootstrappedColumns(n - 1) \o DefaultColumns(n)

\* The database after MaxUsers users have been bootstrapped (user, board
\* and columns in one transaction, ids handed out in order) under some
\* TZ_DEFAULT each; no task, no notification yet.
Init ==
    /\ now = Hours(6)
    /\ users \in BootstrappedUsers
    /\ boards = UserIds
    /\ columns = BootstrappedColumns(MaxUsers)
    /\ ret = <<>>
    /\ tasks = <<>>
    /\ ledger = EmptyBag
    /\ outbox = EmptyBag
    /\ pc = [s \in Scanners |-> "idle"]
    /\ scan_now = [s \in Scanners |-> 0]
    /\ rows = [s \in Scanners |-> <<>>]
    /\ pending = [s \in Scanners |-> EmptyBag]
    /\ outcome = [s \in Scanners |-> "none"]
    /\ scans = 0
    /\ app = StartedApp

\* The database after get_or_create_user alone has created the users: no
\* user has a board yet.
InitUsersOnly ==
    /\ now = Hours(6)
    /\ users \in BootstrappedUsers
    /\ boards = {}
    /\ columns = <<>>
    /\ ret = <<>>
    /\ tasks = <<>>
    /\ ledger = EmptyBag
    /\ outbox = EmptyBag
    /\ pc = [s \in Scanners |-> "idle"]
    /\ scan_now = [s \in Scanners |-> 0]
    /\ rows = [s \in Scanners |-> <<>>]
    /\ pending = [s \in Scanners |-> EmptyBag]
    /\ outcome = [s \in Scanners |-> "none"]
    /\ scans = 0
    /\ app = StartedApp

\* The texts DIGEST_TIME is set to: an hour text, a separator and a minute
\* text, well-formed and not.
HourTexts ==
    { <<"0", "9">>, <<"9">>, <<"2", "3">>, <<"2", "4">>, <<"-", "1">>, <<>>,
      <<"x">>, <<" ", "7">>, <<"+", "7">>, <<"1", "_", "0">>, <<"9", "9">> }
Separators == { <<":">>, <<>>, <<":", ":">>, <<".">> }
MinuteTexts ==
    { <<"0", "0">>, <<"5">>, <<"5", "9">>, <<"6", "0">>, <<"0", "0", " ">>,
      <<"x">>, <<>>, <<"0", "_">> }
DigestTimeInputs ==
    { h \o sep \o m : h \in HourTexts, sep \in Separators, m \in MinuteTexts }

\* main.run before it reads the settings: users bootstrapped as in Init,
\* DIGEST_TIME set to any of the texts
InitStartup ==
    /\ now = Hours(6)
    /\ users \in BootstrappedUsers
    /\ boards = UserIds
    /\ columns = BootstrappedColumns(MaxUsers)
    /\ ret = <<>>
    /\ tasks = <<>>
    /\ ledger = EmptyBag
    /\ outbox = EmptyBag
    /\ pc = [s \in Scanners |-> "idle"]
    /\ scan_now = [s \in Scanners |-> 0]
    /\ rows = [s \in Scanners |-> <<>>]
    /\ pending = [s \in Scanners |-> EmptyBag]
    /\ outcome = [s \in Scanners |-> "none"]
    /\ scans = 0
    /\ \E text \in DigestTimeInputs :
          app = [DIGEST_TIME |-> text, pc |-> "boot", digest |-> <<>>, jobs |-> {}]

ScanVars == <<pc, scan_now, rows, pending, outcome, scans>>
DataVars == <<users, boards, tasks>>
BoardVars == <<columns, ret>>

(***************************************************************************)
(* The clock and the chat handlers that feed the scheduler.                *)
(***************************************************************************)
\* A running reminder scan reads neither the clock nor the tasks after its
\* candidate query, so the clock's steps and the handlers' transactions are
\* placed between scans.  The digest scan reads the wall clock for each
\* candidate (local_day_bounds_utc); ClockRuns lets the clock move during it.
Quiet == \A s \in Scanners : pc[s] = "idle"

Tick ==
    /\ Quiet
    /\ \E t \in Instants : t > now /\ now' = t
    /\ UNCHANGED <<app, BoardVars, DataVars, ledger, outbox, ScanVars>>


\* A deleted row of the columns table: the id stays taken, on no board.
NoColumn == [board_id |-> 0, name |-> "", position |-> 0, is_done |-> FALSE]

\* list_columns: the ids of the board's columns ordered by position
list_columns(board_id) ==
    LET ids == { c \in DOMAIN columns : columns[c].board_id = board_id }
    IN  [i \in 1..Cardinality(ids) |->
            CHOOSE c \in ids :
                Cardinality({ d \in ids : columns[d].position < columns[c].position
                                            \/ (columns[d].position = columns[c].position /\ d < c) })
                    = i - 1]

\* create_task: the target column is the first column not flagged done,
\* the first column when all are flagged
TargetColumn(board_id) ==
    LET cols == list_columns(board_id)
        active_columns == SelectSeq(cols, LAMBDA c : ~columns[c].is_done)
    IN  IF active_columns # <<>> THEN active_columns[1] ELSE cols[1]

CreateTask(board_id, due_at) ==
    /\ Quiet
    /\ board_id \in boards
    /\ list_columns(board_id) # <<>>
    /\ Len(tasks) < MaxTasks
    /\ tasks' = Append(tasks, [board_id |-> board_id,
                               column_id |-> <<TargetColumn(board_id)>>,
                               due_at |-> due_at,
                               reminder_at |-> next_reminder_at(due_at, now),
                               status |-> "active",
                               completed_at |-> <<>>])
    /\ UNCHANGED <<app, BoardVars, now, users, boards, ledger, outbox, ScanVars>>

\* postpone_task as the handlers call it (hours = 24), while the new due
\* instant stays within DueLimit
PostponeTask_stale_reminder(task_id) ==
    /\ Quiet
    /\ task_id \in DOMAIN tasks
    /\ tasks[task_id].board_id \in boards
    /\ LET base == IF tasks[task_id].due_at # <<>> THEN tasks[task_id].due_at[1] ELSE now
           due_at == <<base + Hours(PostponeHours)>>
       IN  /\ due_at[1] <= DueLimit
           /\ tasks' = [tasks EXCEPT ![task_id].due_at = due_at]
    /\ UNCHANGED <<app, BoardVars, now, users, boards, ledger, outbox, ScanVars>>

PostponeTask(task_id) ==
    /\ Quiet
    /\ task_id \in DOMAIN tasks
    /\ tasks[task_id].board_id \in boards
    /\ LET base == IF tasks[task_id].due_at # <<>> THEN tasks[task_id].due_at[1] ELSE now
           due_at == <<base + Hours(PostponeHours)>>
       IN  /\ due_at[1] <= DueLimit
           /\ tasks' = [tasks EXCEPT ![task_id].due_at = due_at,
                                     ![task_id].reminder_at = next_reminder_at(due_at, now)]
    /\ UNCHANGED <<app, BoardVars, now, users, boards, ledger, outbox, ScanVars>>

move_task_keeps_completion(task, column_id, is_done, t) ==
    [task EXCEPT !.column_id = <<column_id>>,
                 !.status = IF is_done THEN "done" ELSE "active",
                 !.completed_at = IF is_done THEN <<t>> ELSE @]

\* move_task: the row of the task after the move to the column, completed
\* at instant t when the column is flagged done
move_task(task, column_id, is_done, t) ==
    [task EXCEPT !.column_id = <<column_id>>,
                 !.status = IF is_done THEN "done" ELSE "active",
                 !.completed_at = IF is_done THEN <<t>> ELSE <<>>]

\* get_done_column: the board's column flagged done (scalar_one_or_none
\* raises when there are several); with none flagged, the last column is
\* flagged and returned.  The result is the column and the columns table.
DoneColumns(board_id) ==
    SelectSeq(list_columns(board_id), LAMBDA c : columns[c].is_done)
get_done_column(board_id) ==
    LET cols == list_columns(board_id)
        done == DoneColumns(board_id)
    IN  IF done # <<>>
        THEN [column |-> done[1], columns |-> columns]
        ELSE [column |-> cols[Len(cols)],
              columns |-> [columns EXCEPT ![cols[Len(cols)]].is_done = TRUE]]

\* mark_task_done of a task not completed yet: get_done_column, then
\* move_task to that column
MarkTaskDone(task_id) ==
    /\ Quiet
    /\ task_id \in DOMAIN tasks
    /\ tasks[task_id].board_id \in boards
    /\ tasks[task_id].completed_at = <<>>
    /\ list_columns(tasks[task_id].board_id) # <<>>
    /\ Len(DoneColumns(tasks[task_id].board_id)) <= 1
    /\ LET found == get_done_column(tasks[task_id].board_id)
       IN  /\ columns' = found.columns
           /\ tasks' = [tasks EXCEPT ![task_id] =
                            move_task(tasks[task_id], found.column,
                                      found.columns[found.column].is_done, now)]
    /\ UNCHANGED <<app, ret, now, users, boards, ledger, outbox, ScanVars>>

\* move_task as the handlers call it: the column is one of the board
\* (resolve_column)
MoveTask(task_id, column_id) ==
    /\ Quiet
    /\ task_id \in DOMAIN tasks
    /\ tasks[task_id].board_id \in boards
    /\ column_id \in DOMAIN columns
    /\ columns[column_id].board_id = tasks[task_id].board_id
    /\ tasks[task_id].column_id # <<column_id>>
    /\ tasks' = [tasks EXCEPT ![task_id] =
                     move_task(tasks[task_id], column_id, columns[column_id].is_done, now)]
    /\ UNCHANGED <<app, BoardVars, now, users, boards, ledger, outbox, ScanVars>>

\* get_done_column called on its own; ret is the column it returns
GetDoneColumn(board_id) ==
    /\ Quiet
    /\ board_id \in boards
    /\ list_columns(board_id) # <<>>
    /\ Len(DoneColumns(board_id)) <= 1
    /\ columns' = get_done_column(board_id).columns
    /\ ret' = <<get_done_column(board_id).column>>
    /\ UNCHANGED <<app, now, DataVars, ledger, outbox, ScanVars>>

\* delete_column: the tasks of the column go to the first other column with
\* the status that column's flag gives them; then, if the deleted column was
\* the done column and the other is not, the other column is flagged done;
\* the column is deleted and the rest renumbered from 0.
delete_column(board_id, column_id) ==
    LET cols == list_columns(board_id)
        fallback == SelectSeq(cols, LAMBDA c : c # column_id)[1]
        fallback_done == columns[fallback].is_done
        remaining == SelectSeq(cols, LAMBDA c : c # column_id)
        Index(c) == CHOOSE i \in DOMAIN remaining : remaining[i] = c
    IN  [tasks |-> [id \in DOMAIN tasks |->
                      IF tasks[id].column_id = <<column_id>>
                      THEN move_task(tasks[id], fallback, fallback_done, now)
                      ELSE tasks[id]],
         columns |-> [c \in DOMAIN columns |->
                        IF c = column_id THEN NoColumn
                        ELSE IF columns[c].board_id # board_id THEN columns[c]
                        ELSE [columns[c] EXCEPT
                                !.position = Index(c) - 1,
                                !.is_done = IF c = fallback /\ columns[column_id].is_done
                                            THEN TRUE ELSE @]]]

DeleteColumn(board_id, column_id) ==
    /\ Quiet
    /\ board_id \in boards
    /\ Len(list_columns(board_id)) > 1
    /\ column_id \in DOMAIN columns
    /\ columns[column_id].board_id = board_id
    /\ tasks' = delete_column(board_id, column_id).tasks
    /\ columns' = delete_column(board_id, column_id).columns
    /\ UNCHANGED <<app, ret, now, users, boards, ledger, outbox, ScanVars>>

\* main.run, line 40: digest_hour, digest_minute = settings.digest_hour_minute;
\* a ValueError ends run before the scheduler exists
ReadDigestTime ==
    /\ app.pc = "boot"
    /\ LET parsed == digest_hour_minute(app.DIGEST_TIME)
       IN  app' = IF parsed = "ValueError"
                  THEN [app EXCEPT !.pc = "failed"]
                  ELSE [app EXCEPT !.pc = "configured", !.digest = parsed]
    /\ UNCHANGED <<BoardVars, now, DataVars, ledger, outbox, ScanVars>>

\* main.run, lines 41-64: the scheduler and its two add_job calls
AddJobs ==
    /\ app.pc = "configured"
    /\ app' = [app EXCEPT !.pc = "scheduled", !.jobs = Jobs]
    /\ UNCHANGED <<BoardVars, now, DataVars, ledger, outbox, ScanVars>>

\* main.run, line 65: scheduler.start()
StartScheduler ==
    /\ app.pc = "scheduled"
    /\ app' = [app EXCEPT !.pc = "started"]
    /\ UNCHANGED <<BoardVars, now, DataVars, ledger, outbox, ScanVars>>

\* main.run, line 89, in the finally block: scheduler.shutdown(wait=False).
\* No run of a job starts afterwards; the runs in progress are not awaited.
ShutdownScheduler ==
    /\ app.pc = "started"
    /\ app' = [app EXCEPT !.pc = "stopped"]
    /\ UNCHANGED <<BoardVars, now, DataVars, ledger, outbox, ScanVars>>

\* main.run, lines 90-91: the dispatcher storage and bot.session are closed
CloseBotSession ==
    /\ app.pc = "stopped"
    /\ app' = [app EXCEPT !.pc = "session_closed"]
    /\ UNCHANGED <<BoardVars, now, DataVars, ledger, outbox, ScanVars>>

\* main.run, lines 92-93: redis is closed and the database engine disposed;
\* run returns, and the event loop, before it ends, cancels every coroutine
\* still in progress: CancelledError is not an Exception, so it leaves a
\* scan through `async with` and everything the scan flushed is rolled back.
DisposeEngine ==
    /\ app.pc = "session_closed"
    /\ app' = [app EXCEPT !.pc = "engine_disposed"]
    /\ pc' = [s \in Scanners |-> "idle"]
    /\ rows' = [s \in Scanners |-> <<>>]
    /\ pending' = [s \in Scanners |-> EmptyBag]
    /\ outcome' = [s \in Scanners |-> IF pc[s] # "idle" THEN "cancelled" ELSE outcome[s]]
    /\ scan_now' = [s \in Scanners |-> 0]
    /\ UNCHANGED <<BoardVars, now, DataVars, ledger, outbox, scans>>

\* The clock seen minute by minute around the digest time: the instants of
\* Tick and, each day, 06:01 (09:01 in Moscow).
MinuteInstants == Instants \cup { Days(d) + Hours(6) + Minutes(1) : d \in 0..MaxDay }
TickMinute ==
    /\ Quiet
    /\ \E t \in MinuteInstants : t > now /\ now' = t
    /\ UNCHANGED <<app, BoardVars, DataVars, ledger, outbox, ScanVars>>

\* get_or_create_board: the user's board, created when there is none
GetOrCreateBoard(user_id) ==
    /\ Quiet
    /\ user_id \in DOMAIN users
    /\ user_id \notin boards
    /\ boards' = boards \cup {user_id}
    /\ UNCHANGED <<app, BoardVars, now, users, tasks, ledger, outbox, ScanVars>>

\* get_or_create_user: the id of the user with the telegram id, 0 when
\* there is none
UserOf(telegram_id) ==
    IF \E u \in DOMAIN users : users[u].telegram_id = telegram_id
    THEN CHOOSE u \in DOMAIN users : users[u].telegram_id = telegram_id
    ELSE 0

\* bootstrap_user_board: get_or_create_user, get_or_create_board (the board
\* is named by its owner), ensure_default_columns; ret is the tuple it
\* returns: the user, the board, the board's columns by position
Bootstrap(telegram_id, tz_default) ==
    /\ Quiet
    /\ UserOf(telegram_id) = 0 => Len(users) < MaxUsers
    /\ LET user == IF UserOf(telegram_id) # 0 THEN UserOf(telegram_id) ELSE Len(users) + 1
           board == user
           had_columns == list_columns(board) # <<>>
       IN  /\ users' = IF UserOf(telegram_id) # 0 THEN users
                       ELSE Append(users, NewUser(telegram_id, tz_default))
           /\ boards' = boards \cup {board}
           /\ columns' = IF had_columns THEN columns
                         ELSE columns \o DefaultColumns(board)
           /\ ret' = << user, board,
                        IF had_columns THEN list_columns(board)
                        ELSE [i \in 1..Len(DEFAULT_COLUMNS) |-> Len(columns) + i] >>
    /\ UNCHANGED <<app, now, tasks, ledger, outbox, ScanVars>>

\* digest_handler: /digest on, /digest off
SetDigest(user_id, enabled) ==
    /\ Quiet
    /\ user_id \in DOMAIN users
    /\ users[user_id].digest_enabled # enabled
    /\ users' = [users EXCEPT ![user_id].digest_enabled = enabled]
    /\ UNCHANGED <<app, BoardVars, now, boards, tasks, ledger, outbox, ScanVars>>

\* A deleted row of the tasks table: ids are never handed out again, so the
\* id stays taken, on no board.
NoTask == [board_id |-> 0, column_id |-> <<>>, due_at |-> <<>>, reminder_at |-> <<>>,
           status |-> "active", completed_at |-> <<>>]

\* What the flush of session.delete(task) does to a notification_logs row:
\* Task.notifications is a relationship without delete cascade, so the rows
\* of the task are detached (task_id = NULL) before the task row goes.
Detached(task_id, row) ==
    IF row.task_id = <<task_id>> THEN [row EXCEPT !.task_id = <<>>] ELSE row

\* delete_task (the transaction of delete_handler)
DeleteTask(task_id) ==
    /\ Quiet
    /\ task_id \in DOMAIN tasks
    /\ tasks[task_id].board_id \in boards
    /\ tasks' = [tasks EXCEPT ![task_id] = NoTask]
    /\ ledger' = BagOfAll(LAMBDA row : Detached(task_id, row), ledger)
    /\ UNCHANGED <<app, BoardVars, now, users, boards, outbox, ScanVars>>

(***************************************************************************)
(* process_reminders and process_digest, one step per await that another   *)
(* coroutine or process can interleave with: the candidate query, the gate *)
(* (existence check and send), the ledger insert, the commit.              *)
(***************************************************************************)
DueReminders(t) ==
    { id \in DOMAIN tasks : /\ tasks[id].completed_at = <<>>
                            /\ tasks[id].reminder_at # <<>>
                            /\ tasks[id].reminder_at[1] <= t }

ReminderOrders_unordered(S) ==
    { q \in [1..Cardinality(S) -> S] : \A i, j \in DOMAIN q : i # j => q[i] # q[j] }

\* ORDER BY reminder_at ASC; rows with equal reminder_at come in any order
ReminderOrders(S) ==
    { q \in [1..Cardinality(S) -> S] :
        /\ \A i, j \in DOMAIN q : i # j => q[i] # q[j]
        /\ \A i, j \in DOMAIN q :
              i < j => tasks[q[i]].reminder_at[1] <= tasks[q[j]].reminder_at[1] }

ReminderRow(id) ==
    [task_id |-> id, reminder_at |-> tasks[id].reminder_at[1],
     user_id |-> tasks[id].board_id, timezone |-> users[tasks[id].board_id].timezone]

\* SELECT users WHERE digest_enabled, in whatever order the database gives
DigestUsers == { u \in DOMAIN users : users[u].digest_enabled }
DigestOrders(S) ==
    { q \in [1..Cardinality(S) -> S] : \A i, j \in DOMAIN q : i # j => q[i] # q[j] }
DigestRow(u) ==
    [task_id |-> 0, reminder_at |-> 0, user_id |-> u, timezone |-> users[u].timezone]

Begin(s, candidates) ==
    /\ app.pc = "started"
    /\ pc[s] = "idle"
    /\ scans < MaxScans
    /\ scans' = scans + 1
    /\ scan_now' = [scan_now EXCEPT ![s] = now]
    /\ rows' = [rows EXCEPT ![s] = candidates]
    /\ pending' = [pending EXCEPT ![s] = EmptyBag]
    /\ outcome' = [outcome EXCEPT ![s] = "running"]
    /\ pc' = [pc EXCEPT ![s] = "gate"]
    /\ UNCHANGED <<app, BoardVars, now, DataVars, ledger, outbox>>

\* The candidate query (session.execute) raises because the database cannot
\* be reached: the exception leaves the scan through `async with`, before
\* any candidate is read.
QueryFails_swallowed(s) ==
    /\ pc[s] = "idle"
    /\ scans < MaxScans
    /\ scans' = scans + 1
    /\ outcome' = [outcome EXCEPT ![s] = "returned"]
    /\ UNCHANGED <<app, BoardVars, now, DataVars, ledger, outbox, pc, scan_now, rows, pending>>

QueryFails(s) ==
    /\ pc[s] = "idle"
    /\ scans < MaxScans
    /\ scans' = scans + 1
    /\ outcome' = [outcome EXCEPT ![s] = "raised"]
    /\ UNCHANGED <<app, BoardVars, now, DataVars, ledger, outbox, pc, scan_now, rows, pending>>

StartReminders(s) ==
    /\ Kind(s) = "reminder"
    /\ \E q \in ReminderOrders(DueReminders(now)) :
          Begin(s, [i \in DOMAIN q |-> ReminderRow(q[i])])

StartDigest(s) ==
    /\ Kind(s) = "digest"
    /\ \E q \in DigestOrders(DigestUsers) :
          Begin(s, [i \in DOMAIN q |-> DigestRow(q[i])])

Cur(s) == Head(rows[s])

\* the logical event of the candidate: (task, reminder instant) of a
\* reminder, (user, local calendar day) of a digest
CurEvent(s) ==
    IF Kind(s) = "reminder"
    THEN [type |-> "reminder", id |-> Cur(s).task_id, at |-> Cur(s).reminder_at]
    ELSE [type |-> "digest", id |-> Cur(s).user_id,
          at |-> LocalDay(scan_now[s], Cur(s).timezone)]

CurKey(s) ==
    IF Kind(s) = "reminder"
    THEN ReminderKey(Cur(s).task_id, Cur(s).reminder_at)
    ELSE DigestKey(Cur(s).user_id, scan_now[s], Cur(s).timezone)

\* continue: on to the next candidate, nothing sent, nothing logged
Skip(s) ==
    /\ rows' = [rows EXCEPT ![s] = Tail(rows[s])]
    /\ UNCHANGED <<app, BoardVars, now, DataVars, ledger, outbox, pc, scan_now, pending, outcome, scans>>

\* local_day_bounds_utc(timezone_name): the UTC instants of the start and
\* the end of the local day that the wall clock shows at the call
local_day_bounds_utc(timezone_name, clock) ==
    LET today == LocalDay(clock, timezone_name)
        start_utc == Days(today) - UtcOffset(timezone_name)
    IN  <<start_utc, start_utc + Days(1)>>

\* ORDER BY due_at ASC over a set of tasks; rows with equal due_at come in
\* any order
RECURSIVE DueOrders(_)
DueOrders(S) ==
    IF S = {} THEN { <<>> }
    ELSE UNION { { <<id>> \o q : q \in DueOrders(S \ {id}) } :
                 id \in { i \in S : \A j \in S : tasks[i].due_at[1] <= tasks[j].due_at[1] } }

\* list_today_tasks: local_day_bounds_utc is called without a date, so the
\* day is the one the wall clock shows at the call
list_today_tasks(board_id, timezone_name, clock) ==
    LET bounds == local_day_bounds_utc(timezone_name, clock)
    IN  DueOrders({ id \in DOMAIN tasks :
                      /\ tasks[id].board_id = board_id
                      /\ tasks[id].completed_at = <<>>
                      /\ tasks[id].due_at # <<>>
                      /\ tasks[id].due_at[1] >= bounds[1]
                      /\ tasks[id].due_at[1] < bounds[2] })

\* list_overdue_tasks, with the wall clock as well
list_overdue_tasks(board_id, timezone_name, clock) ==
    LET bounds == local_day_bounds_utc(timezone_name, clock)
    IN  DueOrders({ id \in DOMAIN tasks :
                      /\ tasks[id].board_id = board_id
                      /\ tasks[id].completed_at = <<>>
                      /\ tasks[id].due_at # <<>>
                      /\ tasks[id].due_at[1] < bounds[1] })

\* tasks[:5]
Preview(q) == SubSeq(q, 1, IF Len(q) < PreviewLimit THEN Len(q) ELSE PreviewLimit)
Tagged(tag, q) == [i \in DOMAIN q |-> <<tag, q[i]>>]

\* The digest text: the two counts, then the preview lines, overdue first.
\* The board of a user is named by its owner.
DigestTexts(s) ==
    { [overdue |-> Len(overdue_tasks), today |-> Len(today_tasks),
       preview |-> Tagged("OVERDUE", Preview(overdue_tasks))
                   \o Tagged("TODAY", Preview(today_tasks))] :
        today_tasks \in list_today_tasks(Cur(s).user_id, Cur(s).timezone, now),
        overdue_tasks \in list_overdue_tasks(Cur(s).user_id, Cur(s).timezone, now) }

\* The reminder text names the task.
MessageTexts(s) ==
    IF Kind(s) = "reminder" THEN { [task |-> Cur(s).task_id] } ELSE DigestTexts(s)

\* What bot.send_message can do: deliver or raise; once main.run has closed
\* bot.session it raises.
Deliveries == IF app.pc = "session_closed" THEN {FALSE} ELSE BOOLEAN

\* bot.send_message: delivered, or it raises
Send(s, delivered) ==
    /\ IF delivered
       THEN \E text \in MessageTexts(s) :
               outbox' = outbox (+) SetToBag({[chat |-> Cur(s).user_id,
                                               event |-> CurEvent(s), text |-> text]})
       ELSE outbox' = outbox
    /\ pc' = [pc EXCEPT ![s] = IF delivered THEN "log_sent" ELSE "log_failed"]
    /\ UNCHANGED <<app, BoardVars, now, DataVars, ledger, scan_now, rows, pending, outcome, scans>>

ReminderGate(s) ==
    /\ Kind(s) = "reminder"
    /\ pc[s] = "gate"
    /\ rows[s] # <<>>
    /\ IF notification_sent(s, CurKey(s))
       THEN Skip(s)
       ELSE \E delivered \in Deliveries : Send(s, delivered)

DigestMatches_hour_only(s) ==
    LocalHour(scan_now[s], Cur(s).timezone) = app.digest[1]

\* digest_hour and digest_minute are the kwargs main.run gave the job
DigestMatches(s) ==
    /\ LocalHour(scan_now[s], Cur(s).timezone) = app.digest[1]
    /\ LocalMinute(scan_now[s], Cur(s).timezone) = app.digest[2]

DigestGate_ignores_board(s) ==
    /\ Kind(s) = "digest"
    /\ pc[s] = "gate"
    /\ rows[s] # <<>>
    /\ IF \/ ~DigestMatches(s)
          \/ notification_sent(s, CurKey(s))
       THEN Skip(s)
       ELSE \E delivered \in Deliveries : Send(s, delivered)

DigestGate(s) ==
    /\ Kind(s) = "digest"
    /\ pc[s] = "gate"
    /\ rows[s] # <<>>
    /\ IF \/ ~DigestMatches(s)
          \/ notification_sent(s, CurKey(s))
          \/ Cur(s).user_id \notin boards
       THEN Skip(s)
       ELSE \E delivered \in Deliveries : Send(s, delivered)

\* An exception leaves the scan: the session closes and its transaction,
\* with every row flushed in this scan, is rolled back.
Raise(s) ==
    /\ pc' = [pc EXCEPT ![s] = "idle"]
    /\ rows' = [rows EXCEPT ![s] = <<>>]
    /\ pending' = [pending EXCEPT ![s] = EmptyBag]
    /\ outcome' = [outcome EXCEPT ![s] = "raised"]
    /\ scan_now' = [scan_now EXCEPT ![s] = 0]
    /\ UNCHANGED <<app, BoardVars, now, DataVars, ledger, outbox, scans>>

\* A scan in progress when the scheduler was shut down without waiting: the
\* executor cancels its coroutine at the await where it is suspended.
Cancelled(s) ==
    /\ app.pc \in {"stopped", "session_closed"}
    /\ pc[s] # "idle"
    /\ pc' = [pc EXCEPT ![s] = "idle"]
    /\ rows' = [rows EXCEPT ![s] = <<>>]
    /\ pending' = [pending EXCEPT ![s] = EmptyBag]
    /\ outcome' = [outcome EXCEPT ![s] = "cancelled"]
    /\ scan_now' = [scan_now EXCEPT ![s] = 0]
    /\ UNCHANGED <<app, BoardVars, now, DataVars, ledger, outbox, scans>>

\* _log_notification: session.add and flush
Flush(s, row) ==
    /\ pending' = [pending EXCEPT ![s] = pending[s] (+) SetToBag({row})]
    /\ rows' = [rows EXCEPT ![s] = Tail(rows[s])]
    /\ pc' = [pc EXCEPT ![s] = "gate"]
    /\ UNCHANGED <<app, BoardVars, now, DataVars, ledger, outbox, scan_now, outcome, scans>>

CurTask(s) == IF Kind(s) = "reminder" THEN <<Cur(s).task_id>> ELSE <<>>
SentRow(s) == NotificationLog(Cur(s).user_id, CurTask(s), Kind(s), CurKey(s), "sent")
FailedRow(s) ==
    NotificationLog(Cur(s).user_id, CurTask(s), Kind(s),
                    FailedKey(CurKey(s), scan_now[s]), "failed")

\* The insert of the `sent` row.  A duplicate key raises IntegrityError in
\* the try block; the except branch then flushes the `failed` row on the
\* session whose transaction that error has rolled back, which raises again.
LogSent_clears_reminder(s) ==
    /\ pc[s] = "log_sent"
    /\ ~InsertWaits(s, SentRow(s).dedupe_key)
    /\ IF InsertConflicts(s, SentRow(s).dedupe_key)
       THEN Raise(s)
       ELSE /\ pending' = [pending EXCEPT ![s] = pending[s] (+) SetToBag({SentRow(s)})]
            /\ rows' = [rows EXCEPT ![s] = Tail(rows[s])]
            /\ pc' = [pc EXCEPT ![s] = "gate"]
            /\ tasks' = IF Kind(s) = "reminder"
                        THEN [tasks EXCEPT ![Cur(s).task_id].reminder_at = <<>>]
                        ELSE tasks
            /\ UNCHANGED <<app, BoardVars, now, users, boards, ledger, outbox, scan_now, outcome, scans>>

LogSent(s) ==
    /\ pc[s] = "log_sent"
    /\ ~InsertWaits(s, SentRow(s).dedupe_key)
    /\ IF InsertConflicts(s, SentRow(s).dedupe_key) THEN Raise(s) ELSE Flush(s, SentRow(s))

\* The insert of the `failed` row, in the except branch: its IntegrityError
\* is not caught.
LogFailed(s) ==
    /\ pc[s] = "log_failed"
    /\ ~InsertWaits(s, FailedRow(s).dedupe_key)
    /\ IF InsertConflicts(s, FailedRow(s).dedupe_key) THEN Raise(s) ELSE Flush(s, FailedRow(s))

Commit(s) ==
    /\ pc[s] = "gate"
    /\ rows[s] = <<>>
    /\ ledger' = ledger (+) pending[s]
    /\ pending' = [pending EXCEPT ![s] = EmptyBag]
    /\ pc' = [pc EXCEPT ![s] = "idle"]
    /\ outcome' = [outcome EXCEPT ![s] = "returned"]
    /\ scan_now' = [scan_now EXCEPT ![s] = 0]
    /\ UNCHANGED <<app, BoardVars, now, DataVars, outbox, rows, scans>>

\* The scheduler at a run time of a job: the executor takes the run unless
\* max_instances runs of the job are in progress; then the run is skipped
\* with a warning, and nothing is kept of it.
Running(job) == { s \in Instances(job) : pc[s] # "idle" }
MaxInstancesReached_never(job) == FALSE

MaxInstancesReached(job) == Cardinality(Running(job)) >= MaxInstances
FreeInstance(job) ==
    IF pc[job] = "idle" THEN job ELSE CHOOSE s \in Instances(job) : s # job

SubmitJob(job) ==
    /\ ~MaxInstancesReached(job)
    /\ IF job = "reminders"
       THEN StartReminders(FreeInstance(job))
       ELSE StartDigest(FreeInstance(job))

SkipJob(job) ==
    /\ MaxInstancesReached(job)
    /\ scans < MaxScans
    /\ scans' = scans + 1
    /\ UNCHANGED <<app, BoardVars, now, DataVars, ledger, outbox, pc, scan_now, rows, pending, outcome>>

Handlers ==
    \/ Tick
    \/ \E b \in ColumnBoards, due_at \in DueChoices : CreateTask(b, due_at)
    \/ \E id \in TaskIds : MarkTaskDone(id)

RunReminders(s) ==
    \/ StartReminders(s)
    \/ ReminderGate(s)
    \/ LogSent(s)
    \/ LogFailed(s)
    \/ Commit(s)

RunDigest(s) ==
    \/ StartDigest(s)
    \/ DigestGate(s)
    \/ LogSent(s)
    \/ LogFailed(s)
    \/ Commit(s)

\* one process: each job runs with max_instances=1
Next == Handlers \/ RunReminders("reminders") \/ RunDigest("digest")
Spec == Init /\ [][Next]_vars

\* The two jobs write disjoint sets of dedupe keys and read nothing of
\* each other, so each is also explored on its own.
NextReminders == Handlers \/ RunReminders("reminders")
SpecReminders == Init /\ [][NextReminders]_vars

NextDigest == Tick \/ RunDigest("digest")
SpecDigest == Init /\ [][NextDigest]_vars

\* Both jobs, the tasks never completed.
NextBoth ==
    \/ Tick
    \/ \E b \in ColumnBoards, due_at \in DueChoices : CreateTask(b, due_at)
    \/ RunReminders("reminders")
    \/ RunDigest("digest")
SpecBoth == Init /\ [][NextBoth]_vars

\* main.run from the reading of DIGEST_TIME on, and the digest job once the
\* scheduler has started.
NextStartup ==
    \/ ReadDigestTime
    \/ AddJobs
    \/ StartScheduler
    \/ Tick
    \/ RunDigest("digest")
SpecStartup == InitStartup /\ [][NextStartup]_vars

\* Both jobs on a database that is out of reach at some ticks.
NextOutage ==
    \/ Tick
    \/ \E b \in ColumnBoards, due_at \in DueChoices : CreateTask(b, due_at)
    \/ \E job \in Jobs : QueryFails(job)
    \/ RunReminders("reminders")
    \/ RunDigest("digest")
SpecOutage == Init /\ [][NextOutage]_vars

\* The scheduler of main.run with its two interval jobs.
NextJobs ==
    \/ Tick
    \/ \E b \in ColumnBoards, due_at \in DueChoices : CreateTask(b, due_at)
    \/ \E job \in Jobs : SubmitJob(job)
    \/ \E job \in Jobs : SkipJob(job)
    \/ \E s \in Scanners : ReminderGate(s)
    \/ \E s \in Scanners : DigestGate(s)
    \/ \E s \in Scanners : LogSent(s)
    \/ \E s \in Scanners : LogFailed(s)
    \/ \E s \in Scanners : Commit(s)
SpecJobs == Init /\ [][NextJobs]_vars

\* Two processes run the reminders job on one database.
NextRacing ==
    \/ Tick
    \/ \E b \in ColumnBoards, due_at \in DueChoices : CreateTask(b, due_at)
    \/ \E s \in RacingScanners : RunReminders(s)
SpecRacing == Init /\ [][NextRacing]_vars

\* The task service alone, with every due instant that lies within an hour
\* and a half of an instant of the clock.
DueInputs ==
    {<<>>} \cup { <<t + d>> : t \in Instants,
                              d \in { 0, Minutes(30), Hours(1) - 500, Hours(1), Hours(1) + 500 } }
NextTasks ==
    \/ Tick
    \/ \E b \in UserIds, due_at \in DueInputs : CreateTask(b, due_at)
SpecTasks == Init /\ [][NextTasks]_vars

\* The digest job with users who switch the digest off and on, the clock
\* passing the minute after the digest time.
NextDigestUsers ==
    \/ TickMinute
    \/ \E u \in UserIds, enabled \in BOOLEAN : SetDigest(u, enabled)
    \/ RunDigest("digest")
SpecDigestUsers == Init /\ [][NextDigestUsers]_vars

\* The digest job over users of whom some have no board yet.
NextBoards ==
    \/ Tick
    \/ \E u \in UserIds : GetOrCreateBoard(u)
    \/ RunDigest("digest")
SpecBoards == InitUsersOnly /\ [][NextBoards]_vars

\* The reminders job over tasks due at 07:00:00.500 and at 12:30, so that reminder
\* instants with and without a fraction of a second occur (11:30 among them).
DueKeys == { <<Hours(7) + 500>>, <<Hours(12) + Minutes(30)>> }
NextKeys ==
    \/ Tick
    \/ \E b \in UserIds, due_at \in DueKeys : CreateTask(b, due_at)
    \/ RunReminders("reminders")
SpecKeys == Init /\ [][NextKeys]_vars

\* The reminders job next to the handlers that create and delete tasks.
NextLedger ==
    \/ Tick
    \/ \E b \in UserIds, due_at \in DueChoices : CreateTask(b, due_at)
    \/ \E id \in TaskIds : DeleteTask(id)
    \/ RunReminders("reminders")
SpecLedger == Init /\ [][NextLedger]_vars

\* The task service with postpone_task: tasks without a due instant, due
\* within the hour and due later, postponed at any instant of the clock.
NextPostpone ==
    \/ Tick
    \/ \E b \in UserIds, due_at \in DueChoices \cup {<<Hours(6)>>} : CreateTask(b, due_at)
    \/ \E id \in TaskIds : PostponeTask(id)
SpecPostpone == Init /\ [][NextPostpone]_vars

\* The reminders job while main.run shuts down: the steps of the finally
\* block interleave with the steps of a scan in progress, which goes on or
\* is cancelled, until the event loop ends.
NextShutdown ==
    \/ Tick
    \/ \E b \in UserIds, due_at \in DueChoices : CreateTask(b, due_at)
    \/ RunReminders("reminders")
    \/ Cancelled("reminders")
    \/ ShutdownScheduler
    \/ CloseBotSession
    \/ DisposeEngine
SpecShutdown == Init /\ [][NextShutdown]_vars

ColumnIds == 1..(Len(DEFAULT_COLUMNS) * MaxUsers)

\* The task service and the column service of a board.
NextColumns ==
    \/ Tick
    \/ \E b \in ColumnBoards, due_at \in DueChoices : CreateTask(b, due_at)
    \/ \E id \in TaskIds, c \in ColumnIds : MoveTask(id, c)
    \/ \E id \in TaskIds : MarkTaskDone(id)
    \/ \E b \in ColumnBoards : GetDoneColumn(b)
    \/ \E b \in ColumnBoards, c \in ColumnIds : DeleteColumn(b, c)
SpecColumns == Init /\ [][NextColumns]_vars

\* The reminders job as the scheduler runs it: the interval trigger keeps
\* starting the job while runs are left, and a started coroutine runs on to
\* its end.
NextRetry ==
    \/ Tick
    \/ \E b \in UserIds, due_at \in DueChoices : CreateTask(b, due_at)
    \/ RunReminders("reminders")
SpecRetry == Init /\ [][NextRetry]_vars /\ WF_vars(RunReminders("reminders"))

\* The reminders job next to create_task and postpone_task, for tasks that
\* have a due instant, on one board.
NextRearm ==
    \/ Tick
    \/ \E b \in ColumnBoards, due_at \in DueChoices \ {<<>>} : CreateTask(b, due_at)
    \/ \E id \in TaskIds : PostponeTask(id)
    \/ RunReminders("reminders")
SpecRearm == Init /\ [][NextRearm]_vars

\* The empty database: no chat has been bootstrapped yet.
InitEmpty ==
    /\ now = Hours(6)
    /\ users = <<>>
    /\ boards = {}
    /\ columns = <<>>
    /\ ret = <<>>
    /\ tasks = <<>>
    /\ ledger = EmptyBag
    /\ outbox = EmptyBag
    /\ pc = [s \in Scanners |-> "idle"]
    /\ scan_now = [s \in Scanners |-> 0]
    /\ rows = [s \in Scanners |-> <<>>]
    /\ pending = [s \in Scanners |-> EmptyBag]
    /\ outcome = [s \in Scanners |-> "none"]
    /\ scans = 0
    /\ app = StartedApp

\* The chats that write to the bot, by telegram id
TelegramIds == 1..MaxUsers

\* bootstrap_user_board called again and again for the chats that write,
\* and create_task on the boards it made.
NextBootstrap ==
    \/ Tick
    \/ \E t \in TelegramIds, tz \in Timezones : Bootstrap(t, tz)
    \/ \E b \in UserIds, due_at \in DueChoices : CreateTask(b, due_at)
SpecBootstrap == InitEmpty /\ [][NextBootstrap]_vars

\* A task as create_task stored it some time before the clock of the model
\* starts: in the first column of its board, reminder an hour before due.
StoredTask(board_id, due_at, completed_at) ==
    [board_id |-> board_id, column_id |-> <<Len(DEFAULT_COLUMNS) * (board_id - 1) + 1>>,
     due_at |-> due_at,
     reminder_at |-> IF due_at = <<>> THEN <<>> ELSE <<due_at[1] - Hours(1)>>,
     status |-> IF completed_at = <<>> THEN "active" ELSE "done",
     completed_at |-> completed_at]

\* Boards with more tasks than a preview shows
MaxListed == PreviewLimit + 1

\* The tasks of one board: a tasks due on the day before day 0, b tasks due
\* on day 0 and c on day 1 (Moscow days), stored in descending order of the
\* due instant, then a completed task due on day 0 and a task without due
\* instant.
ContentTasks(board_id, a, b, c) ==
    [i \in 1..a |-> StoredTask(board_id, <<Days(-1) + Hours(a - i)>>, <<>>)]
    \o [i \in 1..b |-> StoredTask(board_id, <<Hours(b - i)>>, <<>>)]
    \o [i \in 1..c |-> StoredTask(board_id, <<Days(1) + Hours(c - i)>>, <<>>)]
    \o << StoredTask(board_id, <<Hours(12)>>, <<Hours(13)>>),
          StoredTask(board_id, <<>>, <<>>) >>

\* The clock around the end of the Moscow day: 23:59 and 00:00 local
ContentInstants ==
    { Days(d) + Hours(20) + Minutes(59) : d \in 0..MaxDay }
    \cup { Days(d) + Hours(21) : d \in 0..MaxDay }

\* The bot running with DIGEST_TIME = "23:59" at 23:59 Moscow time
InitDigestContent ==
    /\ now = Hours(20) + Minutes(59)
    /\ users \in BootstrappedUsers
    /\ boards = UserIds
    /\ columns = BootstrappedColumns(MaxUsers)
    /\ ret = <<>>
    /\ \E board_id \in UserIds, a \in 0..MaxListed, b \in 0..MaxListed, c \in 0..1 :
          tasks = ContentTasks(board_id, a, b, c)
    /\ ledger = EmptyBag
    /\ outbox = EmptyBag
    /\ pc = [s \in Scanners |-> "idle"]
    /\ scan_now = [s \in Scanners |-> 0]
    /\ rows = [s \in Scanners |-> <<>>]
    /\ pending = [s \in Scanners |-> EmptyBag]
    /\ outcome = [s \in Scanners |-> "none"]
    /\ scans = 0
    /\ app = [DIGEST_TIME |-> <<"2", "3", ":", "5", "9">>, pc |-> "started",
              digest |-> <<23, 59>>, jobs |-> Jobs]

\* The wall clock runs while a scan awaits the database and the notifier.
ClockRuns ==
    /\ \E t \in ContentInstants : t > now /\ now' = t
    /\ UNCHANGED <<app, BoardVars, DataVars, ledger, outbox, ScanVars>>

\* The digest job over boards with tasks, the clock running all the time.
NextDigestContent == ClockRuns \/ RunDigest("digest")
SpecDigestContent == InitDigestContent /\ [][NextDigestContent]_vars

(***************************************************************************)
(* Properties.                                                             *)
(***************************************************************************)
AllRows == BagToSet(ledger) \cup UNION { BagToSet(pending[s]) : s \in Scanners }

\* how many messages the notifier has delivered for a logical event
Delivered(e) ==
    LET ms == { m \in BagToSet(outbox) : m.event = e }
    IN  BagCardinality([m \in ms |-> outbox[m]])

\* how many committed rows carry a dedupe key with a delivery status
Committed(dedupe_key, delivery_status) ==
    LET rs == { r \in BagToSet(ledger) :
                  r.dedupe_key = dedupe_key /\ r.delivery_status = delivery_status }
    IN  BagCardinality([r \in rs |-> ledger[r]])

\* C10: next_reminder_at(D, N) is none when D is none, D - 1h when
\* D - 1h > N, and D otherwise; checked on every task create_task stores,
\* N being the instant of the call.
C10_ReminderDerivation ==
    [][ Len(tasks') = Len(tasks) + 1 =>
          LET D == tasks'[Len(tasks')].due_at
              R == tasks'[Len(tasks')].reminder_at
          IN  /\ D = <<>> => R = <<>>
              /\ D # <<>> /\ D[1] - 3600000 > now => R = <<D[1] - 3600000>>
              /\ D # <<>> /\ D[1] - 3600000 <= now => R = D ]_vars

\* one task without a due instant, or one reminded an hour ahead, next to
\* one whose due instant was less than an hour away (or past) when it was
\* created
C10_Witness ==
    \E i, j \in DOMAIN tasks :
        /\ tasks[i].due_at = <<>> \/ ( /\ tasks[i].due_at # <<>>
                                       /\ tasks[i].reminder_at = <<tasks[i].due_at[1] - 3600000>> )
        /\ tasks[j].due_at # <<>>
        /\ tasks[j].reminder_at = tasks[j].due_at
        /\ tasks[j].due_at[1] <= now

Reminded == { i \in DOMAIN tasks : tasks[i].reminder_at # <<>> }
ReminderEvent(i) == [type |-> "reminder", id |-> i, at |-> tasks[i].reminder_at[1]]
EventKey(i) == ReminderKey(i, tasks[i].reminder_at[1])

\* C1: reminder idempotence: once process_reminders has sent a reminder and
\* its `sent` row is committed, no run is attempting that (task, reminder
\* instant) again, the ledger holds exactly one `sent` row for it and
\* exactly one message was delivered for it.
C1_Idempotence ==
    \A i \in Reminded :
        Committed(EventKey(i), "sent") >= 1 =>
            /\ Committed(EventKey(i), "sent") = 1
            /\ Delivered(ReminderEvent(i)) = 1
            /\ \A s \in Scanners :
                  pc[s] \in {"log_sent", "log_failed"} => CurEvent(s) # ReminderEvent(i)

\* C6: the `failed` key derived for a failed attempt is not in the ledger
\* yet, whatever earlier ticks have logged, so the insert of the `failed`
\* row violates no uniqueness constraint and no scan raises.
C6_FailedKeyFresh ==
    \A s \in Scanners :
        /\ pc[s] = "log_failed" => ~InsertConflicts(s, FailedRow(s).dedupe_key)
        /\ outcome[s] # "raised"

\* C4: when the notifier raises for a candidate, the gate appends exactly
\* one row, `failed`, under canonical key + ":failed:" + unix timestamp of
\* the scan's now, none under the canonical key, and the scan goes on.
C4_FailureLogged ==
    [][ \A s \in Scanners :
          pc[s] = "log_failed" /\ pc'[s] # "log_failed" =>
              /\ pending'[s] = pending[s] (+) SetToBag({
                    NotificationLog(Cur(s).user_id, CurTask(s), Kind(s),
                        CurKey(s) \o ":failed:" \o ToString(UnixTimestamp(scan_now[s])),
                        "failed") })
              /\ CurKey(s) \notin KeysOf(pending'[s])
              /\ outcome'[s] = "running" ]_vars

\* C7: a failed send does not end the scan: the candidates after it are
\* still passed through the gate, and the `sent` rows of those delivered
\* are in the ledger when the scan returns.
C7_FailureDoesNotBlock ==
    [][ \A s \in Scanners :
          /\ pc[s] = "log_failed" /\ pc'[s] # "log_failed" =>
                pc'[s] = "gate" /\ rows'[s] = Tail(rows[s])
          /\ pc[s] = "log_sent" /\ pc'[s] # "log_sent" =>
                pc'[s] = "gate" /\ CurKey(s) \in KeysOf(pending'[s])
          /\ pc[s] = "gate" /\ pc'[s] = "idle" =>
                \A r \in BagToSet(pending[s]) : r \in BagToSet(ledger') ]_vars

\* the digest of a user for a local calendar day, and the canonical key the
\* specification gives it
DigestEvent(u, day) == [type |-> "digest", id |-> u, at |-> day]
DigestKeyOf(u, day) == "digest:" \o ToString(u) \o ":" \o DateIso(day)
LocalDays == 0..(MaxDay + 1)

\* C2: for every digest-enabled user and local calendar date at most one
\* digest message is delivered and at most one `sent` row exists under
\* digest:<user_id>:<local date>.
C2_DigestOncePerDay ==
    \A u \in DOMAIN users, day \in LocalDays :
        /\ Delivered(DigestEvent(u, day)) <= 1
        /\ Committed(DigestKeyOf(u, day), "sent") <= 1

\* C3: after a digest was sent to a user for local date d, a digest tick in
\* the configured minute of local date d+1 is not suppressed: the gate
\* attempts the send, and a delivered digest is recorded as a second `sent`
\* row under the key of d+1, which differs from the key of d; the rows of
\* the ledger stay as they are.
C3_NextDayIndependent ==
    [][ \A s \in Scanners :
          Kind(s) = "digest" /\ rows[s] # <<>> =>
            LET u == Cur(s).user_id
                day == LocalDay(scan_now[s], Cur(s).timezone)
            IN  Delivered(DigestEvent(u, day - 1)) >= 1 =>
                  /\ ( /\ pc[s] = "gate"
                       /\ LocalHour(scan_now[s], Cur(s).timezone) = DigestHour
                       /\ LocalMinute(scan_now[s], Cur(s).timezone) = DigestMinute
                       /\ u \in boards
                       /\ DigestKeyOf(u, day) \notin KeysOf(Visible(s)) )
                     => pc'[s] \in {"log_sent", "log_failed"}
                  /\ pc[s] = "log_sent" /\ pc'[s] # "log_sent" =>
                       /\ NotificationLog(u, <<>>, "digest", DigestKeyOf(u, day), "sent")
                             \in BagToSet(pending'[s])
                       /\ DigestKeyOf(u, day) # DigestKeyOf(u, day - 1)
                       /\ ledger' = ledger ]_vars

\* a user has received the digest of two consecutive local days and both
\* `sent` rows are committed
C3_Witness ==
    \E u \in DOMAIN users, day \in LocalDays :
        /\ Delivered(DigestEvent(u, day)) = 1
        /\ Delivered(DigestEvent(u, day + 1)) = 1
        /\ Committed(DigestKeyOf(u, day), "sent") = 1
        /\ Committed(DigestKeyOf(u, day + 1), "sent") = 1

\* every canonical key of an event in the data
CanonicalKeys ==
    { EventKey(i) : i \in Reminded }
        \cup { DigestKeyOf(u, day) : u \in DOMAIN users, day \in LocalDays }

\* the rows a session sees for the task of its current reminder candidate
RowsOfCur(s, delivery_status) ==
    { r \in BagToSet(Visible(s)) :
        r.task_id = <<Cur(s).task_id>> /\ r.delivery_status = delivery_status }

\* C5: a failed row's key never equals a canonical key; and when the ledger
\* holds only `failed` rows for the event of a reminder candidate, the
\* existence check for its canonical key is false and the gate step
\* attempts the send again.
C5_FailureNeverBlocks ==
    [][ /\ \A r \in AllRows : r.delivery_status = "failed" => r.dedupe_key \notin CanonicalKeys
        /\ \A s \in Scanners :
             ( /\ Kind(s) = "reminder"
               /\ pc[s] = "gate"
               /\ rows[s] # <<>>
               /\ RowsOfCur(s, "failed") # {}
               /\ RowsOfCur(s, "sent") = {} )
             => /\ ~notification_sent(s, CurKey(s))
                /\ (pc'[s] # pc[s] \/ rows'[s] # rows[s]) =>
                       pc'[s] \in {"log_sent", "log_failed"} ]_vars

\* a reminder is delivered on a retry, after an earlier attempt for the same
\* task failed and its `failed` row was committed
C5_Witness ==
    \E s \in Scanners :
        /\ Kind(s) = "reminder"
        /\ pc[s] = "log_sent"
        /\ \E r \in BagToSet(ledger) :
              /\ r.delivery_status = "failed"
              /\ r.task_id = <<Cur(s).task_id>>
        /\ Delivered(CurEvent(s)) = 1

\* C8: when the insert of the `sent` row meets a key that is already in the
\* ledger, the scan does not raise: it goes on to the remaining candidates
\* with the rows it has flushed so far.
C8_DuplicateKeySwallowed ==
    [][ \A s \in Scanners :
          ( /\ pc[s] = "log_sent"
            /\ pc'[s] # "log_sent"
            /\ CurKey(s) \in KeysOf(Visible(s)) )
          => /\ outcome'[s] = "running"
             /\ pc'[s] = "gate"
             /\ rows'[s] = Tail(rows[s])
             /\ pending'[s] = pending[s] ]_vars

\* C9 as stated: under every interleaving of two reminder scans at most one
\* message is delivered for a (task, reminder instant) and the committed
\* ledger holds at most one row with its canonical key.
C9_ConcurrentScansSafe ==
    \A i \in Reminded :
        /\ Delivered(ReminderEvent(i)) <= 1
        /\ Committed(EventKey(i), "sent") + Committed(EventKey(i), "failed") <= 1

\* C9 amended: under every interleaving of two reminder scans the committed
\* ledger holds at most one row with any dedupe key; both scans may deliver
\* the message when both pass the existence check before either inserts.
C9_LedgerKeysUnique ==
    /\ \A r \in BagToSet(ledger) : ledger[r] = 1
    /\ \A r1, r2 \in BagToSet(ledger) : r1.dedupe_key = r2.dedupe_key => r1 = r2

\* two scans have delivered the same reminder, one committed its `sent` row
\* and the insert of the other met that row
C9_Witness ==
    \E i \in Reminded :
        /\ Delivered(ReminderEvent(i)) = 2
        /\ Committed(EventKey(i), "sent") = 1
        /\ \E s \in RacingScanners : outcome[s] = "raised"

\* C11: after create_task and after postpone_task the stored reminder
\* instant is the derivation of 4.1 applied to the new due instant and the
\* instant of the operation (none without a due instant, due - 1h when that
\* is still ahead, else the due instant); a task has a reminder instant
\* exactly when it has a due instant.
C11_ReminderFollowsDue ==
    [][ \A i \in DOMAIN tasks' :
          /\ (i \notin DOMAIN tasks \/ tasks'[i].due_at # tasks[i].due_at) =>
               LET D == tasks'[i].due_at
                   R == tasks'[i].reminder_at
               IN  /\ D = <<>> => R = <<>>
                   /\ D # <<>> /\ D[1] - 3600000 > now => R = <<D[1] - 3600000>>
                   /\ D # <<>> /\ D[1] - 3600000 <= now => R = D
          /\ (tasks'[i].reminder_at = <<>>) <=> (tasks'[i].due_at = <<>>) ]_vars

\* a task created without a due instant has been postponed, and a task whose
\* due instant had passed has been postponed to an instant less than an hour
\* ahead, so that its reminder instant is the new due instant
C11_Witness ==
    \E i, j \in DOMAIN tasks :
        /\ tasks[i].due_at = <<now + Hours(PostponeHours)>>
        /\ tasks[i].reminder_at = <<now + Hours(PostponeHours - 1)>>
        /\ tasks[j].due_at = <<Hours(6) + Hours(PostponeHours)>>
        /\ tasks[j].reminder_at = tasks[j].due_at

\* bag a is contained in bag b
Within(a, b) == \A x \in BagToSet(a) : x \in BagToSet(b) /\ a[x] <= b[x]

C13_LedgerAppendOnly == [][ Within(ledger, ledger') ]_vars

\* C14: a reminder scan at instant T attempts delivery for a task only if
\* the task is not completed, has a reminder instant and that instant is
\* <= T; and by the time the scan ends it has attempted delivery for every
\* such task that has no ledger row under its canonical key.
C14_ReminderCandidates ==
    [][ \A s \in Scanners : Kind(s) = "reminder" =>
          /\ pc[s] = "gate" /\ pc'[s] \in {"log_sent", "log_failed"} =>
                LET task == tasks[Cur(s).task_id]
                IN  /\ task.completed_at = <<>>
                    /\ task.reminder_at # <<>>
                    /\ task.reminder_at[1] <= scan_now[s]
          /\ pc[s] # "idle" /\ pc'[s] = "idle" =>
                \A i \in DOMAIN tasks :
                    ( /\ tasks[i].completed_at = <<>>
                      /\ tasks[i].reminder_at # <<>>
                      /\ tasks[i].reminder_at[1] <= scan_now[s] )
                    => \/ EventKey(i) \in KeysOf(ledger)
                       \/ \E r \in BagToSet(pending[s]) : r.task_id = <<i>>
                       \/ pc[s] \in {"log_sent", "log_failed"} /\ Cur(s).task_id = i ]_vars

\* C15: a digest scan at instant T attempts a digest for a user only if the
\* user has the digest enabled and T in the user's own timezone has exactly
\* the configured hour and minute; every other user gets no send and no
\* ledger row in that scan.
C15_DigestTimeMatch ==
    [][ \A s \in Scanners : Kind(s) = "digest" =>
          /\ pc[s] = "gate" /\ pc'[s] \in {"log_sent", "log_failed"} =>
                /\ users[Cur(s).user_id].digest_enabled
                /\ LocalHour(scan_now[s], users[Cur(s).user_id].timezone) = DigestHour
                /\ LocalMinute(scan_now[s], users[Cur(s).user_id].timezone) = DigestMinute
          /\ \A u \in DOMAIN users :
                ( \/ ~users[u].digest_enabled
                  \/ LocalHour(scan_now[s], users[u].timezone) # DigestHour
                  \/ LocalMinute(scan_now[s], users[u].timezone) # DigestMinute )
                => /\ \A r \in BagToSet(pending'[s]) : r.user_id # u
                   /\ pc[s] # "idle" =>
                        \A d \in LocalDays : Delivered(DigestEvent(u, d))' = Delivered(DigestEvent(u, d)) ]_vars

\* a digest scan has come to the end of its users one minute after the
\* digest time of an enabled user, with another user's digest switched off,
\* after an earlier scan delivered a digest
C15_Witness ==
    /\ pc["digest"] = "gate"
    /\ rows["digest"] = <<>>
    /\ outbox # EmptyBag
    /\ \E u, v \in DOMAIN users :
          /\ users[u].digest_enabled
          /\ LocalHour(scan_now["digest"], users[u].timezone) = DigestHour
          /\ LocalMinute(scan_now["digest"], users[u].timezone) = DigestMinute + 1
          /\ ~users[v].digest_enabled

\* C16: at a matching tick a digest-enabled user without a board is skipped
\* entirely: nothing is sent, no ledger row is added, nothing is raised, and
\* the scan goes on with the remaining users.
C16_NoBoardSkipped ==
    [][ \A s \in Scanners :
          ( /\ Kind(s) = "digest"
            /\ pc[s] = "gate"
            /\ rows[s] # <<>>
            /\ Cur(s).user_id \notin boards
            /\ (pc'[s] # pc[s] \/ rows'[s] # rows[s]) )
          => /\ outbox' = outbox
             /\ pending' = pending
             /\ ledger' = ledger
             /\ outcome'[s] = "running"
             /\ pc'[s] = "gate"
             /\ rows'[s] = Tail(rows[s]) ]_vars

\* in the digest minute of two users the scan has passed the one without a
\* board, leaving no row, and is at the next user, who has a board
C16_Witness ==
    /\ pc["digest"] = "gate"
    /\ Len(rows["digest"]) = 1
    /\ pending["digest"] = EmptyBag
    /\ outcome["digest"] = "running"
    /\ Cur("digest").user_id \in boards
    /\ \E u \in DOMAIN users \ boards :
          /\ u # Cur("digest").user_id
          /\ users[u].digest_enabled
          /\ LocalHour(scan_now["digest"], users[u].timezone) = DigestHour
          /\ LocalMinute(scan_now["digest"], users[u].timezone) = DigestMinute
          /\ DigestKeyOf(u, LocalDay(scan_now["digest"], users[u].timezone)) \notin KeysOf(ledger)

\* the reminder instants in the database
ReminderInstants == { tasks[i].reminder_at[1] : i \in Reminded }

\* different logical events have different canonical keys, the same event
\* has the same key at every instant
KeysInjective ==
    /\ \A a, b \in TaskIds, t, u \in ReminderInstants :
          ReminderKey(a, t) = ReminderKey(b, u) <=> (a = b /\ t = u)
    /\ \A u, v \in DOMAIN users, t \in Instants :
          DigestKey(u, now, users[u].timezone) = DigestKey(v, t, users[v].timezone)
             <=> ( /\ u = v
                   /\ LocalDay(now, users[u].timezone) = LocalDay(t, users[v].timezone) )
    /\ \A a \in TaskIds, t \in ReminderInstants, u \in DOMAIN users :
          ReminderKey(a, t) # DigestKey(u, now, users[u].timezone)

\* the key every scan and every ledger row uses for a reminder whose instant
\* is 2026-02-20T11:30Z ends in the given spelling of that instant
ScenarioKey(instant) ==
    /\ \A i \in Reminded :
          tasks[i].reminder_at = <<Hours(11) + Minutes(30)>> =>
              EventKey(i) = "reminder:" \o ToString(i) \o ":" \o instant
    /\ \A s \in Scanners :
          ( /\ Kind(s) = "reminder"
            /\ rows[s] # <<>>
            /\ Cur(s).reminder_at = Hours(11) + Minutes(30) )
          => CurKey(s) = "reminder:" \o ToString(Cur(s).task_id) \o ":" \o instant

\* C17 as stated: canonical keys are an injective function of the logical
\* event, and for reminder instant 2026-02-20T11:30Z the key is
\* reminder:<id>:2026-02-20T11:30:00Z.
C17_KeysAsStated == KeysInjective /\ ScenarioKey("2026-02-20T11:30:00Z")

\* C17 amended: canonical keys are an injective function of the logical
\* event, and for reminder instant 2026-02-20T11:30Z the key is
\* reminder:<id>:2026-02-20T11:30:00+00:00, the isoformat of the UTC instant.
C17_KeysInjective == KeysInjective /\ ScenarioKey("2026-02-20T11:30:00+00:00")

\* the reminder for instant 11:30 and a reminder for another instant have
\* been sent and recorded, the users living in different timezones
C17_Witness ==
    \E i, j \in Reminded :
        /\ tasks[i].reminder_at = <<Hours(11) + Minutes(30)>>
        /\ tasks[j].reminder_at # tasks[i].reminder_at
        /\ Committed(EventKey(i), "sent") = 1
        /\ Committed(EventKey(j), "sent") = 1
        /\ \E u, v \in DOMAIN users : users[u].timezone # users[v].timezone

\* C18: at no time are two runs of the reminders job in progress together,
\* nor two runs of the digest job; a run that comes due while the previous
\* run of the same job is in progress is skipped and leaves nothing behind; a
\* run starts only when no run of its job is in progress.
C18_JobsExclusive ==
    [][ /\ \A job \in Jobs :
              /\ Cardinality({ s \in Instances(job) : pc[s] # "idle" }) <= 1
              /\ Cardinality({ s \in Instances(job) : pc'[s] # "idle" }) <= 1
              /\ \A s \in Instances(job) :
                    pc[s] = "idle" /\ pc'[s] # "idle" =>
                        \A o \in Instances(job) : pc[o] = "idle"
        /\ scans' = scans + 1 /\ pc' = pc =>
              /\ \E job \in Jobs : \E s \in Instances(job) : pc[s] # "idle"
              /\ UNCHANGED <<app, BoardVars, now, users, boards, tasks, ledger, outbox,
                             scan_now, rows, pending, outcome>> ]_vars

\* a run of the reminders job and a run of the digest job are in progress
\* together, after a run time of a job was skipped
C18_Witness ==
    /\ pc["reminders"] # "idle"
    /\ pc["digest"] # "idle"
    /\ scans = 3

\* C19: a scan whose candidate query fails because the data store is out of
\* reach raises to its caller, sends no message and commits no ledger row;
\* the job is left idle with nothing pending, so that the next tick runs the
\* scan from scratch.
C19_OutageIsFatalToTick ==
    [][ scans' = scans + 1 /\ pc' = pc =>
          /\ \E s \in Jobs :
                /\ pc[s] = "idle"
                /\ outcome'[s] = "raised"
                /\ rows'[s] = <<>>
                /\ pending'[s] = EmptyBag
                /\ \A o \in Scanners \ {s} : outcome'[o] = outcome[o]
          /\ ledger' = ledger
          /\ outbox' = outbox
          /\ UNCHANGED <<app, BoardVars, now, users, boards, tasks, scan_now, rows, pending>> ]_vars

\* the candidate query of a job has failed at a tick after scans that
\* sent and committed, and only the `sent` rows of those scans are in the
\* ledger
C19_Witness ==
    /\ \E s \in Jobs : outcome[s] = "raised" /\ pc[s] = "idle"
    /\ scans >= 2
    /\ ledger # EmptyBag
    /\ \A r \in BagToSet(ledger) : r.delivery_status = "sent"
    /\ BagCardinality(outbox) = BagCardinality(ledger)

\* the hour and minute texts that spell an integer within range, each with
\* the integer it spells
HourReadings ==
    { <<<<"0", "9">>, 9>>, <<<<"9">>, 9>>, <<<<"2", "3">>, 23>>, <<<<" ", "7">>, 7>>,
      <<<<"+", "7">>, 7>>, <<<<"1", "_", "0">>, 10>> }
MinuteReadings ==
    { <<<<"0", "0">>, 0>>, <<<<"5">>, 5>>, <<<<"5", "9">>, 59>>, <<<<"0", "0", " ">>, 0>> }
Readings(text) ==
    { <<hr[2], mr[2]>> : hr \in { x \in HourReadings :
                                   \E y \in MinuteReadings : text = x[1] \o <<":">> \o y[1] },
                         mr \in { y \in MinuteReadings :
                                   \E x \in HourReadings : text = x[1] \o <<":">> \o y[1] } }

\* text is two digits, a colon, two digits, with hour 0..23 and minute 0..59
IsHHMM(text) ==
    /\ Len(text) = 5
    /\ text[3] = ":"
    /\ \A i \in {1, 2, 4, 5} : text[i] \in {"0", "1", "2", "3", "4", "5", "6", "7", "8", "9"}
    /\ 10 * DigitValue(text[1]) + DigitValue(text[2]) <= 23
    /\ 10 * DigitValue(text[4]) + DigitValue(text[5]) <= 59

\* startup has got past the reading of DIGEST_TIME
PastSettings == app.pc \in {"configured", "scheduled", "started"}
NothingScheduled ==
    /\ app.jobs = {}
    /\ app.pc \in {"boot", "failed"}
    /\ scans = 0
    /\ \A s \in Scanners : pc[s] = "idle"

\* C20 as stated: if DIGEST_TIME is not HH:MM with hour in 0..23 and minute
\* in 0..59, startup raises before any job is added or started and no tick
\* ever runs.
C20_OnlyHHMMStarts ==
    /\ PastSettings => IsHHMM(app.DIGEST_TIME)
    /\ ~IsHHMM(app.DIGEST_TIME) => NothingScheduled

\* C20 amended: if DIGEST_TIME does not consist of two integer literals
\* around one colon, with hour in 0..23 and minute in 0..59, startup raises
\* before any job is added or started and no tick ever runs; otherwise the
\* digest job gets exactly the integers spelled, never a clamped value.
C20_MalformedFailsFast ==
    /\ PastSettings =>
          /\ Readings(app.DIGEST_TIME) # {}
          /\ app.digest \in Readings(app.DIGEST_TIME)
    /\ Readings(app.DIGEST_TIME) = {} => NothingScheduled
    /\ app.pc = "failed" => Readings(app.DIGEST_TIME) = {} /\ NothingScheduled

\* startup has raised on DIGEST_TIME = "24:00", and the clock has moved on
\* without a tick
C20_Witness ==
    /\ app.pc = "failed"
    /\ app.DIGEST_TIME = <<"2", "4", ":", "0", "0">>
    /\ now > Hours(6)
    /\ scans = 0

\* C21: bootstrap_user_board is idempotent and reports creation.  Every call
\* returns four values: the user, the board, the board's 4 columns and the
\* created flag, which is TRUE exactly on the first call for the telegram
\* id; a later call returns the same user and board and adds no user, no
\* board and no column.
C21_BootstrapReportsCreation ==
    [][ \A t \in TelegramIds :
          (\E tz \in Timezones : Bootstrap(t, tz)) =>
             /\ Len(ret') = 4
             /\ Len(ret'[3]) = 4
             /\ ret'[4] = (UserOf(t) = 0)
             /\ UserOf(t) # 0 =>
                   /\ ret'[1] = UserOf(t)
                   /\ ret'[2] = UserOf(t)
                   /\ users' = users /\ boards' = boards /\ columns' = columns ]_vars

\* the reminder instants of the candidates the scan has handled and logged
HandledInstants(s) ==
    { tasks[row.task_id[1]].reminder_at[1] : row \in BagToSet(pending[s]) }
SendStarts(s) == pc[s] = "gate" /\ pc'[s] \in {"log_sent", "log_failed"}

\* C22: Reminder ordering.  Within one reminder scan a send is attempted for
\* the candidate with the least reminder instant among those left, after
\* every candidate the scan has handled before (none of them later), and the
\* step of the scan after a send is the ledger write for that candidate (or
\* the exception that ends the scan), never another send.
C22_ReminderOrdering ==
    [][ \A s \in {"reminders"} :
          /\ SendStarts(s) =>
                /\ \A i \in DOMAIN rows[s] : Cur(s).reminder_at <= rows[s][i].reminder_at
                /\ \A r \in HandledInstants(s) : r <= Cur(s).reminder_at
                /\ rows'[s] = rows[s] /\ pending'[s] = pending[s]
          /\ (pc[s] \in {"log_sent", "log_failed"} /\ pc'[s] # pc[s]) =>
                \/ outcome'[s] = "raised"
                \/ /\ pc'[s] = "gate"
                   /\ rows'[s] = Tail(rows[s])
                   /\ \E row \in BagToSet(pending'[s]) :
                         /\ row.task_id = <<Cur(s).task_id>>
                         /\ pending'[s] = pending[s] (+) SetToBag({row})
                         /\ row.delivery_status = IF pc[s] = "log_sent" THEN "sent" ELSE "failed" ]_vars

\* a scan that has logged a candidate and has sent for one with a later
\* reminder instant
C22_Witness ==
    /\ pc["reminders"] \in {"log_sent", "log_failed"}
    /\ \E r \in HandledInstants("reminders") : r < Cur("reminders").reminder_at

\* the user's active tasks that have a due instant
ActiveDue(board_id) ==
    { id \in DOMAIN tasks : /\ tasks[id].board_id = board_id
                            /\ tasks[id].status = "active"
                            /\ tasks[id].completed_at = <<>>
                            /\ tasks[id].due_at # <<>> }
\* the preview lines q carry the tag and list the first tasks of S, at most
\* PreviewLimit of them, in ascending order of the due instant
FirstOf(q, tag, S) ==
    /\ Len(q) = (IF Cardinality(S) < PreviewLimit THEN Cardinality(S) ELSE PreviewLimit)
    /\ \A i \in DOMAIN q : q[i][1] = tag /\ q[i][2] \in S
    /\ \A i, j \in DOMAIN q : i < j =>
          /\ q[i][2] # q[j][2]
          /\ tasks[q[i][2]].due_at[1] <= tasks[q[j][2]].due_at[1]
    /\ \A i \in DOMAIN q : \A id \in S \ { q[j][2] : j \in DOMAIN q } :
          tasks[q[i][2]].due_at[1] <= tasks[id].due_at[1]

\* C23: Digest content for a scan at instant T.  Every digest delivered for
\* (user, local date of T) counts as overdue exactly the user's active tasks
\* due before the local midnight that starts that date and as today exactly
\* those due within that local day; the preview lists the first
\* PreviewLimit of the overdue tasks and then the first PreviewLimit of
\* today's, each in ascending order of the due instant; completed tasks and
\* tasks without due instant are in neither set, and no task is in both.
C23_DigestContent ==
    \A m \in BagToSet(outbox) :
       m.event.type = "digest" =>
          LET start == Days(m.event.at) - UtcOffset(users[m.chat].timezone)
              overdue == { id \in ActiveDue(m.chat) : tasks[id].due_at[1] < start }
              today == { id \in ActiveDue(m.chat) :
                           /\ start <= tasks[id].due_at[1]
                           /\ tasks[id].due_at[1] < start + Days(1) }
          IN  /\ m.text.overdue = Cardinality(overdue)
              /\ m.text.today = Cardinality(today)
              /\ \E k \in 0..Len(m.text.preview) :
                    /\ FirstOf(SubSeq(m.text.preview, 1, k), "OVERDUE", overdue)
                    /\ FirstOf(SubSeq(m.text.preview, k + 1, Len(m.text.preview)),
                               "TODAY", today)

MidCandidate(s) == pc[s] \in {"log_sent", "log_failed"}

\* C24: Shutdown.  Once scheduler.shutdown has been called no scan starts;
\* a scan that has sent for a candidate and has not yet written its ledger
\* row is neither cancelled nor overtaken by the closing of bot.session or
\* the disposal of the engine: both wait until the row is written.
C24_GracefulShutdown ==
    [][ \A s \in {"reminders"} :
          /\ (app.pc # "started" /\ pc[s] = "idle") => pc'[s] = "idle"
          /\ MidCandidate(s) =>
                /\ outcome'[s] # "cancelled"
                /\ app'.pc \in {"session_closed", "engine_disposed"} => app'.pc = app.pc ]_vars

\* C25: Completion state is consistent.  After every step of create_task,
\* move_task, mark_task_done and delete_column each task has status "done"
\* exactly when its completion instant is set; mark_task_done leaves the
\* task done, with a completion instant, in a column flagged done; a move
\* to a column not flagged done clears the completion instant.
C25_CompletionConsistent ==
    [][ /\ \A id \in DOMAIN tasks' :
              tasks'[id].status = "done" <=> tasks'[id].completed_at # <<>>
        /\ \A id \in TaskIds :
              MarkTaskDone(id) =>
                 /\ tasks'[id].status = "done"
                 /\ tasks'[id].completed_at # <<>>
                 /\ columns'[tasks'[id].column_id[1]].is_done
        /\ \A id \in TaskIds, c \in ColumnIds :
              (MoveTask(id, c) /\ ~columns[c].is_done) =>
                 /\ tasks'[id].status = "active"
                 /\ tasks'[id].completed_at = <<>> ]_vars

\* a board with a column deleted, a task done in the done column and an
\* active task moved out of the column create_task chose
C25_Witness ==
    /\ \E c \in DOMAIN columns : columns[c] = NoColumn
    /\ \E id \in DOMAIN tasks :
          /\ tasks[id].status = "done"
          /\ columns[tasks[id].column_id[1]].is_done
    /\ \E id \in DOMAIN tasks :
          /\ tasks[id].status = "active"
          /\ tasks[id].column_id # <<TargetColumn(tasks[id].board_id)>>



\* C30: Done-column coupling.  After every sequence of create_task,
\* move_task, mark_task_done, get_done_column and delete_column a task is
\* completed (completion instant set, status "done") if and only if the
\* column it sits in is flagged is_done; hence a task that sits in a column
\* flagged is_done is at no instant a candidate of the reminder scan.
C30_DoneColumnCoupling ==
    \A id \in DOMAIN tasks :
       tasks[id].board_id \in boards =>
          /\ (tasks[id].completed_at # <<>> /\ tasks[id].status = "done")
                <=> columns[tasks[id].column_id[1]].is_done
          /\ columns[tasks[id].column_id[1]].is_done =>
                \A t \in Instants : id \notin DueReminders(t)

\* the canonical dedupe key of the logical event of a delivered message
CanonicalKey(e) ==
    IF e.type = "reminder" THEN ReminderKey(e.id, e.at) ELSE DigestKeyOf(e.id, e.at)

\* C26: Every successful send is durably recorded.  Whenever no scan is in
\* progress (each scan has ended, by returning or by raising), every
\* message the notifier has delivered has a committed `sent` row under its
\* canonical key.
C26_SendsRecorded ==
    Quiet => \A m \in BagToSet(outbox) : Committed(CanonicalKey(m.event), "sent") >= 1

\* task i is active with its reminder instant reached and a tick is to come
Owed(i) ==
    /\ i \in DOMAIN tasks
    /\ tasks[i].completed_at = <<>>
    /\ tasks[i].reminder_at # <<>>
    /\ tasks[i].reminder_at[1] <= now
    /\ scans < MaxScans
\* the notifier has just failed
SendFailed == \E s \in Scanners : pc[s] = "log_failed"

\* C27: Reminder retry liveness.  While a task is active with its reminder
\* instant reached and ticks keep coming, then, unless the notifier fails
\* once more, the ledger eventually holds a committed `sent` row under the
\* task's canonical key; and once it does, no further message is delivered
\* for that (task, reminder instant).
C27_RetryLiveness ==
    /\ \A i \in TaskIds :
          Owed(i) ~> (SendFailed \/ (i \in Reminded /\ Committed(EventKey(i), "sent") >= 1))
    /\ [][ \A i \in Reminded :
              Committed(EventKey(i), "sent") >= 1 =>
                 Delivered(ReminderEvent(i))' = Delivered(ReminderEvent(i)) ]_vars

\* a reminder that failed first and has its committed `sent` row now
C27_Witness ==
    \E i \in Reminded :
       /\ Committed(EventKey(i), "sent") >= 1
       /\ \E r \in BagToSet(ledger) :
             r.task_id = <<i>> /\ r.delivery_status = "failed"

\* the wall clock of the user is past the trigger minute of local day d
PastTrigger(u, d) ==
    AsTimezone(now, users[u].timezone)
        >= Days(d) + Hours(app.digest[1]) + Minutes(app.digest[2] + 1)
\* a committed `failed` row of the digest of (u, d)
FailedDigest(u, d) ==
    \E r \in BagToSet(ledger), t \in MinuteInstants :
       /\ r.delivery_status = "failed"
       /\ r.dedupe_key = FailedKey(DigestKeyOf(u, d), t)

\* C28: A failed digest is retried only inside the trigger minute.  Once the
\* user's clock is past the configured hour:minute of a local date, no tick
\* delivers a digest for that (user, local date) and no `sent` row is added
\* for it: after a failure in the trigger minute the ledger keeps only the
\* `failed` rows of that day.
C28_NoRetryAfterMinute ==
    [][ \A u \in UserIds, d \in LocalDays :
          PastTrigger(u, d) =>
             /\ Delivered(DigestEvent(u, d))' = Delivered(DigestEvent(u, d))
             /\ Committed(DigestKeyOf(u, d), "sent")' = Committed(DigestKeyOf(u, d), "sent")
             /\ \A s \in {"digest"} :
                   SendStarts(s) => ~(Cur(s).user_id = u
                                       /\ LocalDay(scan_now[s], users[u].timezone) = d) ]_vars

\* a later tick of the day, outside the trigger minute, is at a user whose
\* digest of that day failed and has no `sent` row
C28_Witness ==
    \E u \in UserIds, d \in LocalDays :
       /\ PastTrigger(u, d)
       /\ FailedDigest(u, d)
       /\ Committed(DigestKeyOf(u, d), "sent") = 0
       /\ pc["digest"] = "gate"
       /\ rows["digest"] # <<>>
       /\ Cur("digest").user_id = u
       /\ LocalDay(scan_now["digest"], users[u].timezone) = d

\* a message was delivered and a `sent` row committed for an earlier
\* reminder instant of an active task whose stored reminder instant is now
\* another one
Postponed(i) ==
    /\ i \in DOMAIN tasks
    /\ tasks[i].completed_at = <<>>
    /\ tasks[i].reminder_at # <<>>
    /\ \E m \in BagToSet(outbox) :
          /\ m.event.type = "reminder"
          /\ m.event.id = i
          /\ m.event.at # tasks[i].reminder_at[1]
    /\ \E r \in BagToSet(ledger) :
          r.task_id = <<i>> /\ r.delivery_status = "sent"
\* ... and nothing has been delivered for the new instant yet
Rearmed(i) == Postponed(i) /\ Delivered(ReminderEvent(i)) = 0

\* C29: Postpone re-arms the reminder.  After a reminder was sent for
\* instant R and postpone_task stored R' # R: a scan takes the task as a
\* candidate exactly when its instant has reached R'; at the candidate the
\* old `sent` row does not make the scan skip it, the notifier is called
\* for the event of R', a successful call delivers one message, and the row
\* the scan then adds is the one `sent` row under the key for R'.
C29_PostponeRearms ==
    [][ \A s \in {"reminders"} :
          /\ (pc[s] = "idle" /\ pc'[s] = "gate") =>
                \A i \in DOMAIN tasks :
                   Rearmed(i) =>
                      ( (\E k \in DOMAIN rows'[s] :
                            /\ rows'[s][k].task_id = i
                            /\ rows'[s][k].reminder_at = tasks[i].reminder_at[1])
                        <=> tasks[i].reminder_at[1] <= scan_now'[s] )
          /\ ( /\ pc[s] = "gate" /\ rows[s] # <<>>
               /\ Rearmed(Cur(s).task_id)
               /\ (pc'[s] # pc[s] \/ rows'[s] # rows[s]) ) =>
                /\ SendStarts(s)
                /\ Cur(s).reminder_at = tasks[Cur(s).task_id].reminder_at[1]
                /\ Cur(s).reminder_at <= scan_now[s]
                /\ pc'[s] = "log_sent" => Delivered(ReminderEvent(Cur(s).task_id))' = 1
          /\ ( /\ pc[s] = "log_sent" /\ pc'[s] = "gate"
               /\ Postponed(Cur(s).task_id) ) =>
                LET i == Cur(s).task_id
                    rs == { r \in BagToSet(pending'[s]) : r.task_id = <<i>> }
                IN  /\ Committed(EventKey(i), "sent") = 0
                    /\ \E row \in rs :
                          /\ rs = {row}
                          /\ pending'[s][row] = 1
                          /\ row.delivery_status = "sent"
                          /\ row.dedupe_key = EventKey(i) ]_vars

\* a task with delivered messages for two reminder instants and a committed
\* `sent` row for each of them
C29_Witness ==
    \E i \in Reminded :
       /\ Postponed(i)
       /\ Delivered(ReminderEvent(i)) = 1
       /\ Committed(EventKey(i), "sent") = 1
       /\ \E r \in BagToSet(ledger) :
             /\ r.task_id = <<i>>
             /\ r.delivery_status = "sent"
             /\ r.dedupe_key # EventKey(i)

====
